---- MODULE Spec2Model ----
(***************************************************************************)
(* Natural-language-to-SQL pipeline of seo_hub: QueryExecutor.execute,     *)
(* QueryPlanner.create_execution_plan and SchemaManager.get_schema.        *)
(* Texts are sequences of one-character strings, so that str.lower, the    *)
(* `in` substring test and str.replace are computed as Python computes     *)
(* them.                                                                   *)
(***************************************************************************)
EXTENDS Integers, Sequences, FiniteSets, TLC

\* ------------------------------------------------------------------ bounds
\* table references in one generated SQL text
MaxTokens == 2
\* rows / columns of a Result Set returned by a store
MaxRows == 1
MaxCols == 3

\* ------------------------------------------------------------ text helpers
UpperAlpha == <<"A","B","C","D","E","F","G","H","I","J","K","L","M",
                "N","O","P","Q","R","S","T","U","V","W","X","Y","Z">>
LowerAlpha == <<"a","b","c","d","e","f","g","h","i","j","k","l","m",
                "n","o","p","q","r","s","t","u","v","w","x","y","z">>

\* the characters of the texts below
Alphabet ==
    {UpperAlpha[i] : i \in 1..26} \cup {LowerAlpha[i] : i \in 1..26}
        \cup {" ", ".", "_", "*", ":"}

\* str.lower() on one character
LowerChar ==
    [c \in Alphabet |->
        IF \E i \in 1..26 : UpperAlpha[i] = c
        THEN LowerAlpha[CHOOSE i \in 1..26 : UpperAlpha[i] = c]
        ELSE c]

\* str.lower()
Lower(s) == [i \in 1..Len(s) |-> LowerChar[s[i]]]

\* Python's `p in s` on strings
IsSubstr(p, s) ==
    \E i \in 1..(Len(s) - Len(p) + 1) : \A j \in 1..Len(p) : s[i + j - 1] = p[j]

\* `p in s.lower()`, p being lower case already
IsSubstrLower(p, s) ==
    \E i \in 1..(Len(s) - Len(p) + 1) : \A j \in 1..Len(p) : LowerChar[s[i + j - 1]] = p[j]

\* str.replace(old, new): left to right, non-overlapping, case-sensitive
RECURSIVE Replace(_, _, _)
Replace(s, old, new) ==
    IF Len(s) < Len(old) \/ Len(old) = 0 THEN s
    ELSE IF SubSeq(s, 1, Len(old)) = old
         THEN new \o Replace(SubSeq(s, Len(old) + 1, Len(s)), old, new)
         ELSE <<Head(s)>> \o Replace(Tail(s), old, new)

\* ' '.join(parts)
RECURSIVE JoinSpace(_)
JoinSpace(parts) ==
    IF parts = <<>> THEN <<>>
    ELSE IF Len(parts) = 1 THEN parts[1]
    ELSE parts[1] \o <<" ">> \o JoinSpace(Tail(parts))

\* str.strip() for spaces
RECURSIVE Strip(_)
Strip(s) ==
    IF s = <<>> THEN s
    ELSE IF Head(s) = " " THEN Strip(Tail(s))
    ELSE IF s[Len(s)] = " " THEN Strip(SubSeq(s, 1, Len(s) - 1))
    ELSE s

\* ---------------------------------------------------------------- literals
RankingsDot == <<"r","a","n","k","i","n","g","s",".">>
UrlsAnalysisDot == <<"u","r","l","s","_","a","n","a","l","y","s","i","s",".">>
UrlTrackerDot == <<"u","r","l","_","t","r","a","c","k","e","r",".">>
AimodelsDot == <<"a","i","m","o","d","e","l","s",".">>

RankingsKeywords == <<"r","a","n","k","i","n","g","s",".","k","e","y","w","o","r","d","s">>
RankingsRankings == <<"r","a","n","k","i","n","g","s",".","r","a","n","k","i","n","g","s">>
UrlsAnalysisUrls == <<"u","r","l","s","_","a","n","a","l","y","s","i","s",".","u","r","l","s">>
UrlsAnalysisContent == <<"u","r","l","s","_","a","n","a","l","y","s","i","s",".","c","o","n","t","e","n","t","_","a","n","a","l","y","s","i","s">>
UrlTrackerUrlTracking == <<"u","r","l","_","t","r","a","c","k","e","r",".","u","r","l","_","t","r","a","c","k","i","n","g">>
UrlTrackerSitemap == <<"u","r","l","_","t","r","a","c","k","e","r",".","s","i","t","e","m","a","p","_","t","r","a","c","k","i","n","g">>
AimodelsKeywordRankings == <<"a","i","m","o","d","e","l","s",".","k","e","y","w","o","r","d","_","r","a","n","k","i","n","g","s">>

\* query_planner.py valid_prefixes
ValidPrefixes ==
    { RankingsKeywords, RankingsRankings, UrlsAnalysisUrls, UrlsAnalysisContent,
      UrlTrackerUrlTracking, UrlTrackerSitemap, AimodelsKeywordRankings }

\* the databases SchemaManager and QueryExecutor are constructed with, in
\* the insertion order of SchemaManager.databases
Databases == <<"rankings", "urls_analysis", "aimodels">>

\* pieces of SQL text the language model may write
Keywords == <<"k","e","y","w","o","r","d","s">>
UpperRankingsKeywords == <<"R","A","N","K","I","N","G","S",".","k","e","y","w","o","r","d","s">>
Star == <<"*">>
QualifiedColumn == <<"k","e","y","w","o","r","d","_","r","a","n","k","i","n","g","s",".","k","e","y","w","o","r","d">>
SelectKw == <<"S","E","L","E","C","T"," ">>
FromKw == <<" ","F","R","O","M"," ">>
JoinKw == <<" ","J","O","I","N"," ">>

\* table references and select lists
Tokens ==
    { Keywords, RankingsKeywords, UpperRankingsKeywords, UrlsAnalysisUrls,
      UrlTrackerUrlTracking, AimodelsKeywordRankings }
Columns == { Star, QualifiedColumn }

\* sep.join(parts)
RECURSIVE Join(_, _)
Join(parts, sep) ==
    IF parts = <<>> THEN <<>>
    ELSE IF Len(parts) = 1 THEN parts[1]
    ELSE parts[1] \o sep \o Join(Tail(parts), sep)

\* SELECT <col> FROM <table> JOIN <table> ...
SqlOf(col, toks) == SelectKw \o col \o FromKw \o Join(toks, JoinKw)

\* the texts a plan may carry: the empty text, and statements over one to
\* MaxTokens table references
SqlTexts ==
    { <<>> } \cup
    { SqlOf(c, t) : c \in Columns, t \in UNION { [1..n -> Tokens] : n \in 1..MaxTokens } }

\* visualization hints
Line == <<"l","i","n","e">>
Bar == <<"b","a","r">>
Scatter == <<"s","c","a","t","t","e","r">>
Table == <<"t","a","b","l","e">>
NoneHint == <<"n","o","n","e">>
LineChart == <<"L","i","n","e"," ","c","h","a","r","t">>

Hints == { Line, Bar, Scatter, Table, NoneHint, LineChart }

\* texts of the explanation call
Answer == <<"R","a","n","k","i","n","g","s"," ","i","m","p","r","o","v","e","d",".">>
Explanations == { <<>>, Answer }

Question == "How are we performing for data catalog keywords?"

\* ------------------------------------------------------------ plan values
\* a JSON / Python value: a text, or something that is not a text (null, a
\* number, a list)
Text(s) == [str |-> TRUE, s |-> s]
NonText == [str |-> FALSE, s |-> <<>>]

PlanKeys == {"question_type", "sql_query", "required_context", "visualization"}

KeyText(k) ==
    CASE k = "question_type" -> <<"q","u","e","s","t","i","o","n","_","t","y","p","e">>
      [] k = "sql_query" -> <<"s","q","l","_","q","u","e","r","y">>
      [] k = "required_context" -> <<"r","e","q","u","i","r","e","d","_","c","o","n","t","e","x","t">>
      [] k = "visualization" -> <<"v","i","s","u","a","l","i","z","a","t","i","o","n">>

\* query_planner.py default_plan
DefaultPlan ==
    [question_type |-> Text(<<>>), sql_query |-> Text(<<>>),
     required_context |-> Text(<<>>), visualization |-> Text(Table)]

NoPlan == [k \in PlanKeys |-> NonText]

\* a key of the JSON object in the response: present with a value, or absent
Present(v) == [has |-> TRUE, v |-> v]
Absent == [has |-> FALSE, v |-> NonText]

\* --------------------------------------------------- _parse_gemini_response
\* {**default_plan, **parsed}
MergeJson(r) == [k \in PlanKeys |-> IF r[k].has THEN r[k].v ELSE DefaultPlan[k]]

NoSection == [set |-> FALSE, name |-> <<>>]
NoSections == [k \in PlanKeys |-> [seen |-> FALSE, vals |-> <<>>]]

\* the for loop over response.split('\n'): cur is current_section, secs the
\* entries of `sections` under the keys of the plan (other keys are dropped
\* by `if key in plan`)
RECURSIVE ParseLines(_, _, _)
ParseLines(lines, cur, secs) ==
    IF lines = <<>> THEN secs
    ELSE LET l == Strip(Head(lines))
             rest == Tail(lines)
         IN  IF l = <<>> THEN ParseLines(rest, cur, secs)
             ELSE IF l[Len(l)] = ":"
             THEN LET name == Replace(Lower(SubSeq(l, 1, Len(l) - 1)), <<" ">>, <<"_">>)
                  IN  ParseLines(rest, [set |-> TRUE, name |-> name],
                                 [k \in PlanKeys |->
                                    IF KeyText(k) = name
                                    THEN [seen |-> TRUE, vals |-> <<>>]
                                    ELSE secs[k]])
             ELSE IF cur.set /\ cur.name # <<>>
             THEN ParseLines(rest, cur,
                             [k \in PlanKeys |->
                                IF KeyText(k) = cur.name
                                THEN [seen |-> TRUE, vals |-> Append(secs[k].vals, l)]
                                ELSE secs[k]])
             ELSE ParseLines(rest, cur, secs)

SectionsToPlan(secs) ==
    [k \in PlanKeys |-> IF secs[k].seen THEN Text(JoinSpace(secs[k].vals))
                        ELSE DefaultPlan[k]]

\* a parser whose json.loads is outside the try: invalid JSON yields no plan
ParseGeminiResponseUncaught(r) ==
    CASE r.form = "json" -> MergeJson(r)
      [] r.form = "badjson" -> NoPlan
      [] r.form = "lines" -> SectionsToPlan(ParseLines(r.lines, NoSection, NoSections))

\* form "json": the text has braces and json.loads accepts what lies between
\* the first '{' and the last '}'; "badjson": it has braces and json.loads
\* raises; "lines": it lacks '{' or '}'
ParseGeminiResponse(r) ==
    CASE r.form = "json" -> MergeJson(r)
      [] r.form = "badjson" -> DefaultPlan
      [] r.form = "lines" -> SectionsToPlan(ParseLines(r.lines, NoSection, NoSections))

\* ------------------------------------------------ _validate_database_prefixes
\* a variant that looks for the database prefix alone
HasDatabasePrefixOnly(query) ==
    \E p \in {RankingsDot, UrlsAnalysisDot, UrlTrackerDot, AimodelsDot} :
        IsSubstrLower(p, query)

\* any(prefix.lower() in query_lower for prefix in valid_prefixes)
HasValidPrefix(query) ==
    \E p \in ValidPrefixes : IsSubstrLower(Lower(p), query)

\* ------------------------------------------------------------ _execute_sql
\* the if / elif chain: the first prefix found decides
RouteOf(query) ==
    IF IsSubstrLower(RankingsDot, query) THEN "rankings"
    ELSE IF IsSubstrLower(UrlsAnalysisDot, query) THEN "urls_analysis"
    ELSE IF IsSubstrLower(UrlTrackerDot, query) THEN "url_tracker"
    ELSE IF IsSubstrLower(AimodelsDot, query) THEN "aimodels"
    ELSE "none"

PrefixOf(db) ==
    CASE db = "rankings" -> RankingsDot
      [] db = "urls_analysis" -> UrlsAnalysisDot
      [] db = "url_tracker" -> UrlTrackerDot
      [] db = "aimodels" -> AimodelsDot

\* query.replace("<db>.", "")
StripPrefix(query, db) == Replace(query, PrefixOf(db), <<>>)

\* attributes set by QueryExecutor.__init__: there is no url_tracker_db
ConfiguredDb(db) == db \in {"rankings", "urls_analysis", "aimodels"}

\* SQLite knows no schema named after a store: a statement that still holds
\* a store prefix names no table of the connected database and cannot run
StoreCanRun(stmt) ==
    \A db \in {"rankings", "urls_analysis", "url_tracker", "aimodels"} :
        ~IsSubstrLower(PrefixOf(db), stmt)

\* ------------------------------------------------------ _create_visualization
\* a Result Set: pd.DataFrame() after a failure has no rows and no columns
Frame(rows, cols) == [rows |-> rows, cols |-> cols]
EmptyFrame == Frame(0, 0)
NoData == Frame(-1, -1)

\* DataFrame.empty
DataEmpty(data) == data.rows = 0 \/ data.cols = 0

NoChart == [kind |-> "none", x |-> 0, y |-> 0, color |-> 0]
\* the chart with the axes exchanged
ChartSwappedAxes(kind, data) ==
    [kind |-> kind, x |-> 2, y |-> 1, color |-> IF data.cols > 2 THEN 3 ELSE 0]
Chart(kind, data) ==
    [kind |-> kind, x |-> 1, y |-> 2, color |-> IF data.cols > 2 THEN 3 ELSE 0]

ChartKind(viz_type) ==
    IF IsSubstrLower(Line, viz_type) THEN "line"
    ELSE IF IsSubstrLower(Bar, viz_type) THEN "bar"
    ELSE IF IsSubstrLower(Scatter, viz_type) THEN "scatter"
    ELSE "none"

\* the try block alone, without the `if data.empty` guard before it
VisualizationUnguarded(data, viz_type, pxOk) ==
    IF ~viz_type.str THEN NoChart
    ELSE IF ChartKind(viz_type.s) = "none" THEN NoChart
    ELSE IF data.cols < 2 \/ ~pxOk THEN NoChart
    ELSE Chart(ChartKind(viz_type.s), data)

\* pxOk: the plotting call did not raise. viz_type.lower() on a non-text and
\* data.columns[1] on a one-column frame raise inside the try: no chart
Visualization(data, viz_type, pxOk) ==
    IF DataEmpty(data) THEN NoChart
    ELSE IF ~viz_type.str THEN NoChart
    ELSE IF ChartKind(viz_type.s) = "none" THEN NoChart
    ELSE IF data.cols < 2 \/ ~pxOk THEN NoChart
    ELSE Chart(ChartKind(viz_type.s), data)

\* ------------------------------------------------- language-model responses
Trend == <<"t","r","e","n","d">>
Context == <<"C","o","m","p","a","r","e"," ","w","i","t","h"," ","l","a","s","t"," ","m","o","n","t","h">>

JsonResponse(sql, viz) ==
    [form |-> "json", question_type |-> Present(Text(Trend)), sql_query |-> sql,
     required_context |-> Present(Text(Context)), visualization |-> viz,
     lines |-> <<>>]

BadJsonResponse ==
    [form |-> "badjson", question_type |-> Absent, sql_query |-> Absent,
     required_context |-> Absent, visualization |-> Absent, lines |-> <<>>]

\* a text with braces that json.loads rejects, with the lines it is made of
BadJsonWithLines(lines) ==
    [form |-> "badjson", question_type |-> Absent, sql_query |-> Absent,
     required_context |-> Absent, visualization |-> Absent, lines |-> lines]

LinesResponse(lines) ==
    [form |-> "lines", question_type |-> Absent, sql_query |-> Absent,
     required_context |-> Absent, visualization |-> Absent, lines |-> lines]

SqlQueryHeader == <<"s","q","l","_","q","u","e","r","y",":">>
SqlQueryTitle == <<"S","Q","L"," ","Q","u","e","r","y",":">>
SqlQueryInline == <<"s","q","l","_","q","u","e","r","y",":"," ">>
VisualizationHeader == <<"v","i","s","u","a","l","i","z","a","t","i","o","n",":">>

OneTableSql == { SqlOf(Star, <<t>>) : t \in Tokens }

LineScripts ==
    UNION { { <<SqlQueryHeader, s, VisualizationHeader, Bar>>,
              <<SqlQueryTitle, s>>,
              <<SqlQueryInline \o s>> } : s \in {SqlOf(Star, <<RankingsKeywords>>), SqlOf(Star, <<Keywords>>)} }

\* what the plan call may answer: every SQL text with a line hint, every
\* hint with the one-table texts, keys missing or not texts, invalid JSON,
\* and brace-free answers
PlanResponses ==
    { JsonResponse(Present(Text(s)), Present(Text(Line))) : s \in SqlTexts }
    \cup { JsonResponse(Present(Text(s)), Present(Text(h))) : s \in OneTableSql, h \in Hints }
    \cup { JsonResponse(f, Present(Text(Line))) : f \in {Absent, Present(NonText)} }
    \cup { JsonResponse(Present(Text(SqlOf(Star, <<RankingsKeywords>>))), f) : f \in {Absent, Present(NonText)} }
    \cup { BadJsonResponse }
    \cup { LinesResponse(ls) : ls \in LineScripts }

NoResponse == LinesResponse(<<>>)

\* ------------------------------------------------------------------- state
VARIABLES
    pc,          \* position inside execute(), or "idle" / "done" / "raised"
    schema,      \* get_schema: per database, "described" or "error"
    response,    \* text returned by the plan call
    plan,        \* the execution plan
    data,        \* the Result Set
    viz,         \* the chart
    explanation, \* the explanation text
    result,      \* how execute() ended
    log,         \* calls made to the stores and the language model, in order
    chat         \* history of the chat session last opened on the model

vars == <<pc, schema, response, plan, data, viz, explanation, result, log, chat>>

DbNames == {Databases[i] : i \in 1..Len(Databases)}

Ev(ev, by, db, sql) == [ev |-> ev, by |-> by, db |-> db, sql |-> sql]

\* chat.send_message by a method, on a session with the given history
ChatEv(by, history) ==
    [ev |-> "send_message", by |-> by, db |-> "-", sql |-> <<>>, history |-> history]

\* a session that resumes the one kept from the call before
StartChatResuming(kept) == kept
\* self.model.start_chat(history=[]): a new session, whatever session there was
StartChat(kept) == <<>>
\* the session's history after the exchange: the prompt of the method and the
\* model's reply
SendMessage(history, by) == history \o <<by, "model">>

NoSchema == [db \in DbNames |-> "-"]
Pending == [kind |-> "pending", exc |-> "-", at |-> "-"]
Returned == [kind |-> "returned", exc |-> "-", at |-> "-"]
Raised(exc, at) == [kind |-> "raised", exc |-> exc, at |-> at]

Init ==
    /\ pc = "idle"
    /\ schema = NoSchema
    /\ response = NoResponse
    /\ plan = NoPlan
    /\ data = NoData
    /\ viz = NoChart
    /\ explanation = <<>>
    /\ result = Pending
    /\ log = <<>>
    /\ chat = <<>>

\* execute(user_question) is called with a question that is not None; the
\* caller asks the next question after the previous call ended
Execute ==
    /\ pc \in {"idle", "done", "raised"}
    /\ pc' = "get_schema"
    /\ schema' = NoSchema
    /\ response' = NoResponse
    /\ plan' = NoPlan
    /\ data' = NoData
    /\ viz' = NoChart
    /\ explanation' = <<>>
    /\ result' = Pending
    /\ log' = <<>>
    /\ UNCHANGED chat

\* one database of the for loop of get_schema: sqlite3.connect, the reads
\* and conn.close(), or the except branch
SchemaEvents(db, outcome) ==
    CASE outcome = "ok" ->
            <<Ev("connect", "get_schema", db, <<>>), Ev("close", "get_schema", db, <<>>)>>
      [] outcome = "read_error" -> <<Ev("connect", "get_schema", db, <<>>)>>
      [] outcome = "connect_error" -> <<>>

\* create_execution_plan, first statement: schema_manager.get_schema()
GetSchema ==
    /\ pc = "get_schema"
    /\ \E o \in [DbNames -> {"ok", "read_error", "connect_error"}] :
        /\ schema' = [db \in DbNames |-> IF o[db] = "ok" THEN "described" ELSE "error"]
        /\ log' = log \o SchemaEvents(Databases[1], o[Databases[1]])
                      \o SchemaEvents(Databases[2], o[Databases[2]])
                      \o SchemaEvents(Databases[3], o[Databases[3]])
    /\ pc' = "plan_llm"
    /\ UNCHANGED <<response, plan, data, viz, explanation, result, chat>>

\* create_execution_plan: chat.send_message(prompt). The call raises, or
\* returns a text; schema and query context live on only inside the prompt
SendPlanPrompt ==
    /\ pc = "plan_llm"
    /\ log' = Append(log, ChatEv("create_execution_plan", StartChat(chat)))
    /\ schema' = NoSchema
    /\ \/ /\ result' = Raised("LLMError", "create_execution_plan")
          /\ pc' = "raised"
          /\ chat' = StartChat(chat)
          /\ UNCHANGED response
       \/ /\ response' \in PlanResponses
          /\ pc' = "parse"
          /\ chat' = SendMessage(StartChat(chat), "create_execution_plan")
          /\ UNCHANGED result
    /\ UNCHANGED <<plan, data, viz, explanation>>

\* a caller that hands the parsed plan on without validating it
ParsePlanUnvalidated ==
    /\ pc = "parse"
    /\ plan' = ParseGeminiResponse(response)
    /\ response' = NoResponse
    /\ pc' = "execute_sql"
    /\ UNCHANGED <<schema, data, viz, explanation, result, log, chat>>

\* create_execution_plan: plan = self._parse_gemini_response(response.text)
ParsePlan ==
    /\ pc = "parse"
    /\ plan' = ParseGeminiResponse(response)
    /\ response' = NoResponse
    /\ pc' = "validate"
    /\ UNCHANGED <<schema, data, viz, explanation, result, log, chat>>

\* create_execution_plan: self._validate_database_prefixes(plan['sql_query']);
\* query.lower() raises on a value that is not a text
ValidatePlan ==
    /\ pc = "validate"
    /\ IF ~plan.sql_query.str
       THEN /\ result' = Raised("AttributeError", "_validate_database_prefixes")
            /\ pc' = "raised"
            /\ UNCHANGED log
       ELSE IF ~HasValidPrefix(plan.sql_query.s)
       THEN /\ result' = Raised("ValueError", "_validate_database_prefixes")
            /\ pc' = "raised"
            /\ UNCHANGED log
       ELSE /\ pc' = "execute_sql"
            /\ log' = Append(log, Ev("validated", "create_execution_plan", "-", <<>>))
            /\ UNCHANGED result
    /\ UNCHANGED <<schema, response, plan, data, viz, explanation, chat>>

\* the try block of _execute_sql against the routed database: connect
\* raises, the query raises (conn.close() is skipped), or rows come back.
\* The except branch reports error, query and database through st.error
RunStatement(db, stmt) ==
    \/ /\ data' = EmptyFrame
       /\ log' = Append(log, Ev("st_error", "_execute_sql", db, stmt))
    \/ /\ data' = EmptyFrame
       /\ log' = log \o <<Ev("connect", "_execute_sql", db, <<>>),
                          Ev("query", "_execute_sql", db, stmt),
                          Ev("st_error", "_execute_sql", db, stmt)>>
    \/ /\ StoreCanRun(stmt)
       /\ \E rows \in 0..MaxRows, cols \in 1..MaxCols : data' = Frame(rows, cols)
       /\ log' = log \o <<Ev("connect", "_execute_sql", db, <<>>),
                          Ev("query", "_execute_sql", db, stmt),
                          Ev("close", "_execute_sql", db, <<>>)>>

\* execute: data = self._execute_sql(plan['sql_query'])
ExecuteSql ==
    /\ pc = "execute_sql"
    /\ LET db == RouteOf(plan.sql_query.s)
       IN  IF ~plan.sql_query.str
           THEN /\ result' = Raised("AttributeError", "_execute_sql")
                /\ pc' = "raised"
                /\ UNCHANGED <<data, log>>
           ELSE IF db = "none"
           THEN /\ result' = Raised("ValueError", "_execute_sql")
                /\ pc' = "raised"
                /\ UNCHANGED <<data, log>>
           ELSE IF ~ConfiguredDb(db)
           THEN /\ result' = Raised("AttributeError", "_execute_sql")
                /\ pc' = "raised"
                /\ UNCHANGED <<data, log>>
           ELSE /\ RunStatement(db, StripPrefix(plan.sql_query.s, db))
                /\ pc' = "visualize"
                /\ UNCHANGED result
    /\ UNCHANGED <<schema, response, plan, viz, explanation, chat>>

\* execute: viz = self._create_visualization(data, plan['visualization'])
CreateVisualization ==
    /\ pc = "visualize"
    /\ \E pxOk \in BOOLEAN : viz' = Visualization(data, plan.visualization, pxOk)
    /\ pc' = "explain"
    /\ UNCHANGED <<schema, response, plan, data, explanation, result, log, chat>>

\* execute: explanation = self._generate_explanation(...); return. The
\* explanation is response.text as it comes
GenerateExplanation ==
    /\ pc = "explain"
    /\ log' = Append(log, ChatEv("_generate_explanation", StartChat(chat)))
    /\ \/ /\ result' = Raised("LLMError", "_generate_explanation")
          /\ pc' = "raised"
          /\ chat' = StartChat(chat)
          /\ UNCHANGED explanation
       \/ /\ explanation' \in Explanations
          /\ result' = Returned
          /\ pc' = "done"
          /\ chat' = SendMessage(StartChat(chat), "_generate_explanation")
    /\ UNCHANGED <<schema, response, plan, data, viz>>

\* ============================================================== get_schema
\* tables found in the stores (rank_tracking.py, operations.py and
\* model_check_new.py create them); AUTOINCREMENT adds sqlite_sequence
SqlitePrefix == <<"s","q","l","i","t","e","_">>
SqliteSequence == <<"s","q","l","i","t","e","_","s","e","q","u","e","n","c","e">>
RankingsName == <<"r","a","n","k","i","n","g","s">>
UrlsName == <<"u","r","l","s">>
UrlContentChanges == <<"u","r","l","_","c","o","n","t","e","n","t","_","c","h","a","n","g","e","s">>
KeywordRankingsName == <<"k","e","y","w","o","r","d","_","r","a","n","k","i","n","g","s">>

\* a row of PRAGMA table_info: name, type, notnull, dflt_value, pk
Col(name, type, notnull, dflt, pk) ==
    [name |-> name, type |-> type, notnull |-> notnull, dflt |-> dflt, pk |-> pk]
\* a row of PRAGMA foreign_key_list: fk[3] from, fk[2] table, fk[4] to
Fk(from, table, to) == [from |-> from, table |-> table, to |-> to]
Tbl(name, cols, fks) == [name |-> name, cols |-> cols, fks |-> fks]

IdCol == Col("id", "INTEGER", FALSE, "", TRUE)

\* sqlite_master of each store, in creation order
FullTables(db) ==
    CASE db = "rankings" ->
            << Tbl(Keywords, <<IdCol, Col("keyword", "TEXT", FALSE, "", FALSE),
                                Col("created_at", "DATE", FALSE, "CURRENT_DATE", FALSE)>>, <<>>),
               Tbl(SqliteSequence, <<Col("name", "", FALSE, "", FALSE)>>, <<>>),
               Tbl(RankingsName, <<IdCol, Col("keyword_id", "INTEGER", FALSE, "", FALSE)>>,
                   <<Fk("keyword_id", Keywords, "id")>>) >>
      [] db = "urls_analysis" ->
            << Tbl(UrlsName, <<IdCol, Col("url", "TEXT", TRUE, "", FALSE)>>, <<>>),
               Tbl(SqliteSequence, <<Col("name", "", FALSE, "", FALSE)>>, <<>>),
               Tbl(UrlContentChanges, <<IdCol, Col("url_id", "INTEGER", FALSE, "", FALSE)>>,
                   <<Fk("url_id", UrlsName, "id")>>) >>
      [] db = "aimodels" ->
            << Tbl(KeywordRankingsName, <<Col("keyword", "TEXT", FALSE, "", TRUE),
                                           Col("check_date", "DATE", FALSE, "", TRUE)>>, <<>>) >>

\* tables a store may hold
MaxTables == 3
\* calls of get_schema in one run
MaxCalls == 2

Min(a, b) == IF a < b THEN a ELSE b

\* the stores at some moment of their creation: each holds its first n tables
StoreStructures ==
    { [db \in DbNames |-> SubSeq(FullTables(db), 1, Min(n, Len(FullTables(db))))] :
        n \in 0..MaxTables }

\* one line of schema_info
Ln(kind, name, col, type, cons, ts) ==
    [kind |-> kind, name |-> name, col |-> col, type |-> type, cons |-> cons, ts |-> ts]

\* str.startswith
StartsWith(s, p) == Len(s) >= Len(p) /\ SubSeq(s, 1, Len(p)) = p

\* constraints of one column, in the order of the three ifs
Constraints(c) ==
    (IF c.pk THEN <<"PRIMARY KEY">> ELSE <<>>)
        \o (IF c.notnull THEN <<"NOT NULL">> ELSE <<>>)
        \o (IF c.dflt # "" THEN <<"DEFAULT " \o c.dflt>> ELSE <<>>)

ColumnLines(cols) ==
    [i \in 1..Len(cols) |->
        Ln("column", <<>>, cols[i].name, cols[i].type, Constraints(cols[i]), 0)]

ForeignKeyLines(fks) ==
    IF fks = <<>> THEN <<>>
    ELSE <<Ln("foreign_keys", <<>>, "", "", <<>>, 0)>>
         \o [i \in 1..Len(fks) |-> Ln("fk", fks[i].table, fks[i].from, fks[i].to, <<>>, 0)]

\* the `for table in tables` loop
RECURSIVE TableLines(_)
TableLines(tables) ==
    IF tables = <<>> THEN <<>>
    ELSE LET t == Head(tables)
         IN  (IF StartsWith(t.name, SqlitePrefix) THEN <<>>
              ELSE <<Ln("table", t.name, "", "", <<>>, 0)>>
                   \o ColumnLines(t.cols) \o ForeignKeyLines(t.fks))
             \o TableLines(Tail(tables))

\* the three lines that open the section of a database
DatabaseLines(db) ==
    << Ln("database", <<>>, db, "", <<>>, 0),
       Ln("purpose", <<>>, db, "", <<>>, 0),
       Ln("rule", <<>>, "", "", <<>>, 0) >>

\* what the try block has appended when one of its statements raises:
\* nothing (connect, the sqlite_master query), or the tables before the one
\* whose PRAGMA table_info or PRAGMA foreign_key_list raises, with the lines
\* of that table written so far
LinesBeforeError(tables) ==
    {<<>>}
      \cup { TableLines(SubSeq(tables, 1, j - 1)) \o <<Ln("table", tables[j].name, "", "", <<>>, 0)>> :
                j \in {i \in 1..Len(tables) : ~StartsWith(tables[i].name, SqlitePrefix)} }
      \cup { TableLines(SubSeq(tables, 1, j - 1)) \o <<Ln("table", tables[j].name, "", "", <<>>, 0)>>
                    \o ColumnLines(tables[j].cols) :
                j \in {i \in 1..Len(tables) : ~StartsWith(tables[i].name, SqlitePrefix)} }

ErrorLine == Ln("error", <<>>, "", "", <<>>, 0)

\* schema header with the time of the call, and the introduction line
HeaderLines(now) ==
    << Ln("header", <<>>, "", "", <<>>, now), Ln("intro", <<>>, "", "", <<>>, 0) >>

VARIABLES
    stores,          \* per database, the tables of its sqlite_master
    spc,             \* position inside get_schema: "idle", "loop", "returned"
    dbIndex,         \* database the for loop of get_schema is at
    schema_info,     \* the list get_schema builds
    description,     \* what the last call returned
    prevDescription, \* what the call before it returned
    errs,            \* databases whose try block raised in the current call
    prevErrs,        \* the same for the call before
    clock,           \* datetime.now(), in seconds
    calls            \* calls of get_schema so far

schemaVars ==
    <<stores, spc, dbIndex, schema_info, description, prevDescription,
      errs, prevErrs, clock, calls>>

\* the schema part at rest
SchemaIdle ==
    /\ spc = "idle"
    /\ dbIndex = 0
    /\ schema_info = <<>>
    /\ description = <<>>
    /\ prevDescription = <<>>
    /\ errs = {}
    /\ prevErrs = {}
    /\ clock = 0
    /\ calls = 0

InitSchema ==
    /\ stores \in StoreStructures
    /\ SchemaIdle

\* a get_schema that keeps its list from one call to the next
GetSchemaCallKeepingList ==
    /\ spc \in {"idle", "returned"}
    /\ calls < MaxCalls
    /\ calls' = calls + 1
    /\ clock' \in {clock, clock + 1}
    /\ schema_info' = schema_info \o HeaderLines(clock')
    /\ prevDescription' = description
    /\ prevErrs' = errs
    /\ errs' = {}
    /\ dbIndex' = 1
    /\ spc' = "loop"
    /\ UNCHANGED <<stores, description>>

\* get_schema, up to the for loop: a fresh list with the two header lines
GetSchemaCall ==
    /\ spc \in {"idle", "returned"}
    /\ calls < MaxCalls
    /\ calls' = calls + 1
    /\ clock' \in {clock, clock + 1}
    /\ schema_info' = HeaderLines(clock')
    /\ prevDescription' = description
    /\ prevErrs' = errs
    /\ errs' = {}
    /\ dbIndex' = 1
    /\ spc' = "loop"
    /\ UNCHANGED <<stores, description>>

\* a loop whose try encloses the for: the first error ends the description
DescribeDatabaseAborting ==
    /\ spc = "loop"
    /\ dbIndex <= Len(Databases)
    /\ LET db == Databases[dbIndex]
       IN  \/ /\ schema_info' = schema_info \o DatabaseLines(db) \o TableLines(stores[db])
              /\ dbIndex' = dbIndex + 1
              /\ UNCHANGED errs
           \/ /\ \E done \in LinesBeforeError(stores[db]) :
                    schema_info' = schema_info \o DatabaseLines(db) \o done \o <<ErrorLine>>
              /\ errs' = errs \cup {db}
              /\ dbIndex' = Len(Databases) + 1
    /\ UNCHANGED <<stores, spc, description, prevDescription, prevErrs, clock, calls>>

\* one pass of `for db_name, db_path in self.databases.items()`: the try
\* block lists the tables, or raises (connect or a read) and the except
\* branch appends the error note
DescribeDatabase ==
    /\ spc = "loop"
    /\ dbIndex <= Len(Databases)
    /\ LET db == Databases[dbIndex]
       IN  \/ /\ schema_info' = schema_info \o DatabaseLines(db) \o TableLines(stores[db])
              /\ UNCHANGED errs
           \/ /\ \E done \in LinesBeforeError(stores[db]) :
                    schema_info' = schema_info \o DatabaseLines(db) \o done \o <<ErrorLine>>
              /\ errs' = errs \cup {db}
    /\ dbIndex' = dbIndex + 1
    /\ UNCHANGED <<stores, spc, description, prevDescription, prevErrs, clock, calls>>

\* return "\n".join(schema_info)
GetSchemaReturn ==
    /\ spc = "loop"
    /\ dbIndex = Len(Databases) + 1
    /\ description' = schema_info
    /\ spc' = "returned"
    /\ UNCHANGED <<stores, dbIndex, schema_info, prevDescription, errs, prevErrs, clock, calls>>

\* ============================================================= VectorStore
\* the three collections, in the order query_similar and load_initial_data
\* go through them
Collections == <<"patterns", "trends", "competitors">>
CollNames == {Collections[i] : i \in 1..Len(Collections)}

\* entries a collection may grow to by add calls
MaxEntries == 2

\* inputs of the add and query calls
Q1 == "How are we performing for data catalog keywords?"
Q2 == "Which urls changed?"
S1 == "SELECT keyword FROM rankings.keywords"
S2 == "SELECT url FROM urls_analysis.urls"
T1 == "AI overviews reduce clicks"
I1 == "competitor published a glossary"
Queries == {Q1, Q2}
SqlDocs == {S1, S2}

\* metadata=None, and a metadata dict
NoneMeta == [none |-> TRUE]
TagMeta == [category |-> "rankings"]
EmptyDict == [k \in {} |-> k]

\* (metadata or {})
MetaOrEmpty(metadata) == IF metadata = NoneMeta THEN EmptyDict ELSE metadata

\* {**first, **second}: the keys of second win
DictMerge(first, second) == second @@ first

\* arguments of add_sql_pattern, add_trend and add_competitor_insight
PatternInputs ==
    { [question |-> Q1, sql |-> S1, metadata |-> NoneMeta],
      [question |-> Q1, sql |-> S2, metadata |-> TagMeta],
      [question |-> Q2, sql |-> S1, metadata |-> TagMeta],
      [question |-> Q2, sql |-> S2, metadata |-> NoneMeta] }

\* one stored item of a collection
Entry(id, doc, meta) == [id |-> id, doc |-> doc, meta |-> meta]

\* f"sql_{n}", f"trend_{n}", f"comp_{n}"
IdPrefix(c) ==
    CASE c = "patterns" -> "sql_"
      [] c = "trends" -> "trend_"
      [] c = "competitors" -> "comp_"
MakeId(c, n) == [prefix |-> IdPrefix(c), n |-> n]

\* an id taken from the patterns collection whatever the collection
NextIdFromPatterns(store, c) == MakeId(c, Len(store["patterns"]) + 1)

\* len(collection.get()['ids']) + 1
NextId(store, c) == MakeId(c, Len(store[c]) + 1)

\* an add that replaces the entries holding the same document
CollectionAddReplacing(entries, id, doc, meta) ==
    SelectSeq(entries, LAMBDA x : x.doc # doc) \o <<Entry(id, doc, meta)>>

\* collection.add: an id the collection already holds is not added again
CollectionAdd(entries, id, doc, meta) ==
    IF \E i \in DOMAIN entries : entries[i].id = id THEN entries
    ELSE Append(entries, Entry(id, doc, meta))

VARIABLES
    coll,        \* per collection, its entries in insertion order
    assigned,    \* per collection, the ids the add calls computed, in call order
    nearer,      \* per query text, the SQL documents by embedding distance
    files,       \* the three JSON files of the knowledge base directory
    lastOp       \* the last VectorStore call, with what it returned

storeVars == <<coll, assigned, nearer, files, lastOp>>

NoOp == [op |-> "none"]

Orderings(S) ==
    {p \in [1..Cardinality(S) -> S] : \A i, j \in DOMAIN p : p[i] = p[j] => i = j}

\* the state add_* leaves: [coll, assigned] after one add on collection c
AddTo(st, c, doc, meta) ==
    LET id == NextId(st.coll, c)
    IN  [coll |-> [st.coll EXCEPT ![c] = CollectionAdd(@, id, doc, meta)],
         assigned |-> [st.assigned EXCEPT ![c] = Append(@, id.n)]]

\* the metadata stored with the three kinds of item
PatternMeta(p) == DictMerge([question_pattern |-> p.question], MetaOrEmpty(p.metadata))
TrendMeta(t) == DictMerge([source |-> t.source, date |-> t.date], MetaOrEmpty(t.metadata))
CompetitorMeta(i) ==
    DictMerge([competitor |-> i.competitor, date |-> i.date], MetaOrEmpty(i.metadata))

TrendInput == [content |-> T1, source |-> "newsletter", date |-> "2024-11-01", metadata |-> NoneMeta]
InsightInput == [competitor |-> "acme", content |-> I1, date |-> "2024-11-02", metadata |-> NoneMeta]

AddSqlPattern ==
    /\ Len(coll["patterns"]) < MaxEntries
    /\ \E p \in PatternInputs :
          LET st == AddTo([coll |-> coll, assigned |-> assigned], "patterns", p.sql, PatternMeta(p))
          IN  /\ coll' = st.coll
              /\ assigned' = st.assigned
              /\ lastOp' = [op |-> "add_sql_pattern", question |-> p.question,
                            sql |-> p.sql, metadata |-> p.metadata]
    /\ UNCHANGED <<nearer, files>>

AddTrend ==
    /\ Len(coll["trends"]) < MaxEntries
    /\ LET st == AddTo([coll |-> coll, assigned |-> assigned], "trends",
                       TrendInput.content, TrendMeta(TrendInput))
       IN  /\ coll' = st.coll
           /\ assigned' = st.assigned
    /\ lastOp' = [op |-> "add_trend"]
    /\ UNCHANGED <<nearer, files>>

AddCompetitorInsight ==
    /\ Len(coll["competitors"]) < MaxEntries
    /\ LET st == AddTo([coll |-> coll, assigned |-> assigned], "competitors",
                       InsightInput.content, CompetitorMeta(InsightInput))
       IN  /\ coll' = st.coll
           /\ assigned' = st.assigned
    /\ lastOp' = [op |-> "add_competitor_insight"]
    /\ UNCHANGED <<nearer, files>>

\* n_results: int = 5
DefaultNResults == 5

\* place of a document in the order of distance from the query; the notes of
\* the other two collections are all the same text
Rank(q, doc) ==
    IF doc \in SqlDocs THEN CHOOSE i \in DOMAIN nearer[q] : nearer[q][i] = doc ELSE 1

\* the entries collection.query returns: the n nearest by distance, entries at
\* the same distance in insertion order (the index orders by distance, then
\* by the label it gave the entry when it was added)
Nearest(entries, q, n) ==
    LET Before(x, y) ==
            \/ Rank(q, entries[x].doc) < Rank(q, entries[y].doc)
            \/ Rank(q, entries[x].doc) = Rank(q, entries[y].doc) /\ x < y
    IN  [i \in 1..Min(n, Len(entries)) |->
            CHOOSE x \in DOMAIN entries :
                Cardinality({y \in DOMAIN entries : Before(y, x)}) = i - 1]

\* the dict collection.query returns for query_texts=[query]: one inner list
\* per query text
QueryResult(entries, o) ==
    [ids |-> << [i \in DOMAIN o |-> entries[o[i]].id] >>,
     documents |-> << [i \in DOMAIN o |-> entries[o[i]].doc] >>,
     metadatas |-> << [i \in DOMAIN o |-> entries[o[i]].meta] >>]

\* the results dict of query_similar
SimilarResults(q, n) ==
    [c \in CollNames |-> QueryResult(coll[c], Nearest(coll[c], q, n))]

QuerySimilar ==
    /\ \E q \in Queries, n \in {1, DefaultNResults} :
          lastOp' = [op |-> "query_similar", query |-> q, n_results |-> n,
                     results |-> SimilarResults(q, n)]
    /\ UNCHANGED <<coll, assigned, nearer, files>>

\* lines of the text _format_patterns returns
FormatLine(kind, n, value) == [kind |-> kind, n |-> n, value |-> value]
NoPatternsFound == <<FormatLine("No relevant SQL patterns found.", 0, <<>>)>>

\* 'question_pattern' in metadata, where metadata is an element of
\* patterns['metadatas'], a list of dicts: a str equals no dict
QuestionPatternIn(metadata) == FALSE

RECURSIVE FormatPairs(_, _, _)
FormatPairs(documents, metadatas, i) ==
    IF i > Min(Len(documents), Len(metadatas)) THEN <<>>
    ELSE <<FormatLine("Pattern", i, <<>>)>>
         \o (IF metadatas[i] # <<>> /\ QuestionPatternIn(metadatas[i])
                THEN <<FormatLine("Question", i, metadatas[i])>> ELSE <<>>)
         \o <<FormatLine("SQL", i, documents[i])>>
         \o FormatPairs(documents, metadatas, i + 1)

\* QueryPlanner._format_patterns
FormatPatterns(patterns) ==
    IF patterns.documents = <<>> THEN NoPatternsFound
    ELSE FormatPairs(patterns.documents, patterns.metadatas, 1)

\* create_execution_plan up to the prompt: query_similar(user_question) and
\* the exemplars formatted into the prompt
BuildPrompt ==
    /\ \E q \in Queries :
          LET results == SimilarResults(q, DefaultNResults)
          IN  lastOp' = [op |-> "create_execution_plan", query |-> q, results |-> results,
                         exemplars |-> FormatPatterns(results["patterns"])]
    /\ UNCHANGED <<coll, assigned, nearer, files>>

AbsentFile == [exists |-> FALSE, json |-> FALSE, entries |-> <<>>]
NoFiles == [c \in CollNames |-> AbsentFile]

StoreEmpty ==
    /\ coll = [c \in CollNames |-> <<>>]
    /\ assigned = [c \in CollNames |-> <<>>]
    /\ files = NoFiles
    /\ lastOp = NoOp

InitStore ==
    /\ StoreEmpty
    /\ nearer \in [Queries -> Orderings(SqlDocs)]

\* ------------------------------------------------------- load_initial_data
\* entries a knowledge base file may hold
MaxFileEntries == 1

\* an entry of each file with every key the loader subscripts
CompleteEntry(c) ==
    CASE c = "patterns" -> [question |-> Q1, sql |-> S1, metadata |-> TagMeta]
      [] c = "trends" -> [content |-> T1, source |-> "newsletter", date |-> "2024-11-01"]
      [] c = "competitors" -> [competitor |-> "acme", content |-> I1, date |-> "2024-11-02"]

\* an entry lacking one of them
LackingEntry(c) ==
    CASE c = "patterns" -> [question |-> Q2]
      [] c = "trends" -> [content |-> T1, source |-> "newsletter"]
      [] c = "competitors" -> [competitor |-> "acme", date |-> "2024-11-02"]

FileEntries(c) == {CompleteEntry(c), LackingEntry(c)}

\* the keys load_initial_data subscripts
RequiredKeys(c) ==
    CASE c = "patterns" -> {"question", "sql"}
      [] c = "trends" -> {"content", "source", "date"}
      [] c = "competitors" -> {"competitor", "content", "date"}

SeqsUpTo(S, n) == UNION {[1..k -> S] : k \in 0..n}

\* a file is absent, is not JSON, or holds a list of entries
FileStates(c) ==
    {AbsentFile, [exists |-> TRUE, json |-> FALSE, entries |-> <<>>]}
        \cup { [exists |-> TRUE, json |-> TRUE, entries |-> es] :
                    es \in SeqsUpTo(FileEntries(c), MaxFileEntries) }

\* entry.get('metadata')
GetMetadata(entry) == IF "metadata" \in DOMAIN entry THEN entry.metadata ELSE NoneMeta

\* the add call the loop of collection c makes for one entry
AddEntry(st, c, entry) ==
    LET m == GetMetadata(entry)
    IN  CASE c = "patterns" ->
                AddTo(st, c, entry.sql,
                      PatternMeta([question |-> entry.question, metadata |-> m]))
          [] c = "trends" ->
                AddTo(st, c, entry.content,
                      TrendMeta([source |-> entry.source, date |-> entry.date, metadata |-> m]))
          [] c = "competitors" ->
                AddTo(st, c, entry.content,
                      CompetitorMeta([competitor |-> entry.competitor, date |-> entry.date,
                                      metadata |-> m]))

Loading(c, a, raised) == [coll |-> c, assigned |-> a, raised |-> raised]

\* for entry in entries: the add call, or the KeyError of a missing key
RECURSIVE AddEach(_, _, _)
AddEach(st, c, entries) ==
    IF entries = <<>> THEN st
    ELSE IF ~(RequiredKeys(c) \subseteq DOMAIN Head(entries))
         THEN [st EXCEPT !.raised = "KeyError"]
    ELSE LET next == AddEntry(st, c, Head(entries))
         IN  AddEach(Loading(next.coll, next.assigned, st.raised), c, Tail(entries))

\* a loader in which a missing file ends the load
LoadFileOrStop(st, c) ==
    IF st.raised # "" THEN st
    ELSE IF ~files[c].exists THEN [st EXCEPT !.raised = "stopped"]
    ELSE IF ~files[c].json THEN [st EXCEPT !.raised = "JSONDecodeError"]
    ELSE AddEach(st, c, files[c].entries)

\* one `if os.path.exists(...)` block; nothing runs once an exception is raised
LoadFile(st, c) ==
    IF st.raised # "" THEN st
    ELSE IF ~files[c].exists THEN st
    ELSE IF ~files[c].json THEN [st EXCEPT !.raised = "JSONDecodeError"]
    ELSE AddEach(st, c, files[c].entries)

\* the three blocks, and the second copy of them inside the competitors block
LoadAll(st) ==
    LET first == LoadFile(LoadFile(st, "patterns"), "trends")
    IN  IF first.raised = "" /\ files["competitors"].exists
        THEN LoadFile(LoadFile(LoadFile(LoadFile(first, "competitors"),
                                        "patterns"), "trends"), "competitors")
        ELSE first

LoadInitialData ==
    /\ lastOp = NoOp
    /\ LET st == LoadAll(Loading(coll, assigned, ""))
       IN  /\ coll' = st.coll
           /\ assigned' = st.assigned
           /\ lastOp' = [op |-> "load_initial_data", raised |-> st.raised, before |-> coll]
    /\ UNCHANGED <<nearer, files>>

\* what an earlier run may have left in a persistent collection: nothing,
\* or one entry
Persisted(c) ==
    LET empty == [coll |-> [x \in CollNames |-> <<>>], assigned |-> [x \in CollNames |-> <<>>]]
    IN  {<<>>, AddEntry(empty, c, CompleteEntry(c)).coll[c]}

InitLoad ==
    /\ coll \in [CollNames -> UNION {Persisted(c) : c \in CollNames}]
    /\ \A c \in CollNames : coll[c] \in Persisted(c)
    /\ assigned = [c \in CollNames |-> <<>>]
    /\ files \in [CollNames -> UNION {FileStates(c) : c \in CollNames}]
    /\ \A c \in CollNames : files[c] \in FileStates(c)
    /\ lastOp = NoOp
    /\ nearer = [q \in Queries |-> <<S1, S2>>]

\* ------------------------------------------- _parse_gemini_response alone
\* brace-free texts without a sql_query section
UnsectionedScripts ==
    { <<>>, <<Answer>>, <<VisualizationHeader, Bar>>,
      <<SqlOf(Star, <<RankingsKeywords>>)>> }

\* the response texts the parser is given
ParseInputs ==
    PlanResponses
        \cup { LinesResponse(ls) : ls \in UnsectionedScripts }
        \cup { BadJsonWithLines(ls) : ls \in LineScripts }

InitParse ==
    /\ pc = "parse"
    /\ schema = NoSchema
    /\ response \in ParseInputs
    /\ plan = NoPlan
    /\ data = NoData
    /\ viz = NoChart
    /\ explanation = <<>>
    /\ result = Pending
    /\ log = <<>>
    /\ chat = <<>>

\* one call of _parse_gemini_response(response); the text stays at hand
ParseResponse ==
    /\ pc = "parse"
    /\ plan' = ParseGeminiResponse(response)
    /\ pc' = "parsed"
    /\ UNCHANGED <<schema, response, data, viz, explanation, result, log, chat>>

\* ------------------------------------------------- add calls interleaved
\* threads of the application calling add_* on the one VectorStore
MaxThreads == 2
Threads == 1..MaxThreads

VARIABLES
    adds         \* per thread, its add call: arguments, position, id computed

threadVars == <<adds>>

NoAdd == [at |-> "none"]
ThreadsAtRest == adds = [t \in Threads |-> NoAdd]

\* an add call entered: collection, document and metadata of the call
AddCall(c, doc, meta) == [at |-> "called", c |-> c, doc |-> doc, meta |-> meta, id |-> MakeId(c, 0)]
AddCalls ==
    { AddCall("patterns", p.sql, PatternMeta(p)) : p \in PatternInputs }
        \cup { AddCall("trends", TrendInput.content, TrendMeta(TrendInput)),
               AddCall("competitors", InsightInput.content, CompetitorMeta(InsightInput)) }

InitThreads == adds \in [Threads -> AddCalls]

\* first half of add_*: the thread reads the count and builds the id
CountIds ==
    \E t \in Threads :
        /\ adds[t].at = "called"
        /\ adds' = [adds EXCEPT ![t].at = "counted", ![t].id = NextId(coll, adds[t].c)]
        /\ UNCHANGED storeVars

\* second half of add_*: collection.add with the id built before
InsertEntry ==
    \E t \in Threads :
        /\ adds[t].at = "counted"
        /\ coll' = [coll EXCEPT ![adds[t].c] =
                        CollectionAdd(@, adds[t].id, adds[t].doc, adds[t].meta)]
        /\ assigned' = [assigned EXCEPT ![adds[t].c] = Append(@, adds[t].id.n)]
        /\ adds' = [adds EXCEPT ![t].at = "added"]
        /\ UNCHANGED <<nearer, files, lastOp>>

\* ================================================================ execute
\* every variable of the module
allVars == <<vars, schemaVars, storeVars, threadVars>>

\* the stores as the application creates them
CreatedStores == [db \in DbNames |-> FullTables(db)]

\* the schema manager and the vector store at rest
SchemaAtRest == stores = CreatedStores /\ SchemaIdle
StoreAtRest == StoreEmpty /\ nearer = [q \in Queries |-> <<S1, S2>>]

Next ==
    \/ Execute /\ UNCHANGED <<schemaVars, storeVars, threadVars>>
    \/ GetSchema /\ UNCHANGED <<schemaVars, storeVars, threadVars>>
    \/ SendPlanPrompt /\ UNCHANGED <<schemaVars, storeVars, threadVars>>
    \/ ParsePlan /\ UNCHANGED <<schemaVars, storeVars, threadVars>>
    \/ ValidatePlan /\ UNCHANGED <<schemaVars, storeVars, threadVars>>
    \/ ExecuteSql /\ UNCHANGED <<schemaVars, storeVars, threadVars>>
    \/ CreateVisualization /\ UNCHANGED <<schemaVars, storeVars, threadVars>>
    \/ GenerateExplanation /\ UNCHANGED <<schemaVars, storeVars, threadVars>>

InitExecute == Init /\ SchemaAtRest /\ StoreAtRest /\ ThreadsAtRest

\* QueryExecutor.execute, with the other parts at rest
Spec == InitExecute /\ [][Next]_allVars

NextSchema ==
    \/ GetSchemaCall /\ UNCHANGED <<vars, storeVars, threadVars>>
    \/ DescribeDatabase /\ UNCHANGED <<vars, storeVars, threadVars>>
    \/ GetSchemaReturn /\ UNCHANGED <<vars, storeVars, threadVars>>

InitSchemaCalls == Init /\ InitSchema /\ StoreAtRest /\ ThreadsAtRest

\* SchemaManager.get_schema called up to MaxCalls times on static stores
SpecSchema == InitSchemaCalls /\ [][NextSchema]_allVars

NextStore ==
    \/ AddSqlPattern /\ UNCHANGED <<vars, schemaVars, threadVars>>
    \/ AddTrend /\ UNCHANGED <<vars, schemaVars, threadVars>>
    \/ AddCompetitorInsight /\ UNCHANGED <<vars, schemaVars, threadVars>>
    \/ QuerySimilar /\ UNCHANGED <<vars, schemaVars, threadVars>>
    \/ BuildPrompt /\ UNCHANGED <<vars, schemaVars, threadVars>>

InitStoreCalls == Init /\ SchemaAtRest /\ InitStore /\ ThreadsAtRest

\* the add and query calls of VectorStore, in any order, on an empty store
SpecStore == InitStoreCalls /\ [][NextStore]_allVars

NextLoad ==
    \/ LoadInitialData /\ UNCHANGED <<vars, schemaVars, threadVars>>

InitLoadCall == Init /\ SchemaAtRest /\ InitLoad /\ ThreadsAtRest

\* VectorStore.load_initial_data, once, on a persistent store
SpecLoad == InitLoadCall /\ [][NextLoad]_allVars

NextParse ==
    \/ ParseResponse /\ UNCHANGED <<schemaVars, storeVars, threadVars>>

InitParseCall == InitParse /\ SchemaAtRest /\ StoreAtRest /\ ThreadsAtRest

\* QueryPlanner._parse_gemini_response on each response text
SpecParse == InitParseCall /\ [][NextParse]_allVars

NextThreads ==
    \/ CountIds /\ UNCHANGED <<vars, schemaVars>>
    \/ InsertEntry /\ UNCHANGED <<vars, schemaVars>>

InitThreadCalls == Init /\ SchemaAtRest /\ StoreAtRest /\ InitThreads

\* one add call per thread on an empty store, their halves in any order
SpecThreads == InitThreadCalls /\ [][NextThreads]_allVars

\* ================================================================== claims
AllStores == {"rankings", "urls_analysis", "url_tracker", "aimodels"}

\* the stores whose prefix (rankings., urls_analysis., url_tracker.,
\* aimodels.) occurs in a text, letter case ignored
StoresIn(s) == { db \in AllStores : IsSubstrLower(PrefixOf(db), s) }

\* the recognized store-prefixed table names that occur in a text
TablesIn(s) == { p \in ValidPrefixes : IsSubstrLower(p, s) }

\* the stores owning the recognized table names of a text
StoresOfTablesIn(s) ==
    { db \in AllStores : \E p \in TablesIn(s) : IsSubstr(PrefixOf(db), p) }

ByExecuteSql(i) == log[i].by = "_execute_sql"
IsPlanCall(i) == log[i].ev = "send_message" /\ log[i].by = "create_execution_plan"
IsExplanationCall(i) == log[i].ev = "send_message" /\ log[i].by = "_generate_explanation"

\* _validate_database_prefixes has run on the current plan
ValidationDone == pc \in {"execute_sql", "visualize", "explain", "done", "raised"}

\* _execute_sql has run on the current plan
ExecuteSqlDone ==
    \/ pc \in {"visualize", "explain", "done"}
    \/ pc = "raised" /\ result.at \in {"_execute_sql", "_generate_explanation"}

UnprefixedPlan == plan.sql_query.str /\ \A p \in ValidPrefixes : ~IsSubstrLower(p, plan.sql_query.s)

\* C1 (as amended): when the generated SQL text holds none of the recognized
\* store-prefixed table names, execute ends at validation with the
\* ValueError of _validate_database_prefixes; _execute_sql makes no call to
\* any store, and the only connections of the call are those get_schema
\* opened before the plan call was sent.
C1_UnprefixedRejectedBeforeExecuteSql ==
    (ValidationDone /\ UnprefixedPlan) =>
        /\ pc = "raised"
        /\ result = Raised("ValueError", "_validate_database_prefixes")
        /\ \A i \in DOMAIN log : ~ByExecuteSql(i)
        /\ \A i \in DOMAIN log :
              log[i].ev = "connect" =>
                  /\ log[i].by = "get_schema"
                  /\ \E j \in DOMAIN log : j > i /\ IsPlanCall(j)

\* C1 as stated: with no recognized table name in the SQL, no store
\* connection is opened at any point of the call.
C1_NoConnectionOpenedAtAll ==
    (ValidationDone /\ UnprefixedPlan) =>
        \A i \in DOMAIN log : log[i].ev # "connect"

C1_Witness ==
    /\ pc = "raised"
    /\ plan.sql_query = Text(SqlOf(Star, <<Keywords>>))
    /\ result.exc = "ValueError"
    /\ \E i \in DOMAIN log : log[i].ev = "connect"

\* C2: every statement sent to a store holds no prefix of another store.
C2_RoutingIsolation ==
    \A i \in DOMAIN log :
        log[i].ev = "query" => StoresIn(log[i].sql) \subseteq {log[i].db}

\* C3: when the SQL holds no store prefix, or prefixes of two or more
\* stores, _execute_sql fails with a routing error and queries no store.
C3_ExactlyOneStoreOrRoutingError ==
    (ExecuteSqlDone /\ plan.sql_query.str /\ Cardinality(StoresIn(plan.sql_query.s)) # 1) =>
        /\ pc = "raised"
        /\ result = Raised("ValueError", "_execute_sql")
        /\ \A i \in DOMAIN log : ~ByExecuteSql(i)

\* C4: execute never raises: every call ends by returning its triple.
C4_ExecuteNeverRaises == result.kind # "raised"

\* C5: within one call, every store call of _execute_sql comes after the
\* plan call and after the plan passed validation, the explanation call
\* comes after every call of _execute_sql and after _execute_sql returned,
\* and a plan that reached _execute_sql names a recognized table.
C5_PlanThenQueryThenExplanation ==
    /\ \A i \in DOMAIN log :
          ByExecuteSql(i) =>
              \E j \in 1..(i - 1) :
                  /\ log[j].ev = "validated"
                  /\ \E k \in 1..(j - 1) : IsPlanCall(k)
    /\ \A i \in DOMAIN log :
          IsExplanationCall(i) =>
              /\ data # NoData
              /\ \E j \in 1..(i - 1) : log[j].ev = "validated"
              /\ \A j \in DOMAIN log : ByExecuteSql(j) => j < i
    /\ pc \in {"visualize", "explain", "done"} =>
          plan.sql_query.str /\ \E p \in ValidPrefixes : IsSubstrLower(p, plan.sql_query.s)

C5_Witness ==
    /\ pc = "done"
    /\ \E i \in DOMAIN log : log[i].ev = "query"
    /\ \E i \in DOMAIN log : IsExplanationCall(i)

StoreFailed == \E i \in DOMAIN log : log[i].ev = "st_error"

\* C6: when the statement fails against its store, the Result Set is empty
\* and execute ends by returning no chart and an explanation, not by raising.
C6_StoreFailureReturnsEmptyResult ==
    StoreFailed =>
        /\ data = EmptyFrame
        /\ result.kind # "raised"
        /\ pc = "done" => viz = NoChart

\* C7: on a Result Set with no rows the chart is none, whatever the hint.
C7_EmptyResultSetNoChart ==
    (pc \in {"explain", "done"} /\ data.rows = 0) => viz = NoChart

C7_Witness ==
    /\ pc = "done"
    /\ data = Frame(0, 2)
    /\ plan.visualization = Text(Line)
    /\ viz = NoChart

\* C8: when the SQL returned no rows, the returned explanation is not the
\* empty text.
C8_NoDataExplanationNonEmpty ==
    (pc = "done" /\ ~StoreFailed /\ data.rows = 0) => explanation # <<>>

\* C9: a plan whose SQL names tables of more than one store is rejected by
\* validation and run against no store.
C9_MultiStorePlanRejected ==
    (ValidationDone /\ plan.sql_query.str
        /\ Cardinality(StoresOfTablesIn(plan.sql_query.s)) > 1) =>
        /\ pc = "raised"
        /\ result.at = "_validate_database_prefixes"
        /\ \A i \in DOMAIN log : ~ByExecuteSql(i)

\* C10: when the plan call fails, no SQL is run and execute returns a triple
\* whose explanation carries the failure.
C10_PlanCallFailureReturned ==
    (pc \in {"done", "raised"} /\ log # <<>> /\ IsPlanCall(Len(log))) =>
        /\ result.kind = "returned"
        /\ explanation # <<>>

\* C11: when the explanation call fails after the store query, execute still
\* ends by returning the Result Set and the chart it computed, with a
\* fallback explanation in place of the missing one.
C11_ExplanationFailureStillReturns ==
    (pc \in {"done", "raised"} /\ \E i \in DOMAIN log : IsExplanationCall(i)) =>
        /\ result.kind = "returned"
        /\ data # NoData

\* ------------------------------------------------------------ get_schema claims
\* positions of the "Database:" lines of a description
DatabaseLinesAt(desc) == {i \in DOMAIN desc : desc[i].kind = "database"}

\* the stores a description names, in the order it names them
StoresListed(desc) == SelectSeq([i \in DOMAIN desc |-> IF desc[i].kind = "database" THEN desc[i].col ELSE ""],
                                LAMBDA n : n # "")

\* the section of one store: the lines after its "Database:" line, up to the
\* next "Database:" line
SectionOf(desc, db) ==
    LET starts == {i \in DatabaseLinesAt(desc) : desc[i].col = db}
    IN  IF starts = {} THEN <<>>
        ELSE LET from == CHOOSE i \in starts : \A j \in starts : i <= j
                 later == {i \in DatabaseLinesAt(desc) : i > from}
                 to == IF later = {} THEN Len(desc) + 1
                       ELSE CHOOSE i \in later : \A j \in later : i <= j
             IN  SubSeq(desc, from + 1, to - 1)

HasErrorNote(sec) == \E i \in DOMAIN sec : sec[i].kind = "error"

\* the tables a section lists, and the columns listed under the k-th of them
TablesListed(sec) ==
    SelectSeq([i \in DOMAIN sec |-> IF sec[i].kind = "table" THEN sec[i].name ELSE <<>>],
              LAMBDA n : n # <<>>)

ColumnsListed(sec, k) ==
    LET at == {i \in DOMAIN sec : sec[i].kind = "table"}
        from == CHOOSE i \in at : Cardinality({j \in at : j <= i}) = k
        later == {i \in at : i > from}
        to == IF later = {} THEN Len(sec) + 1 ELSE CHOOSE i \in later : \A j \in later : i <= j
        cols == SelectSeq(SubSeq(sec, from + 1, to - 1), LAMBDA l : l.kind = "column")
    IN  [i \in DOMAIN cols |-> <<cols[i].col, cols[i].type>>]

\* the user tables of a store (sqlite_sequence is SQLite's own)
UserTables(db) == SelectSeq(stores[db], LAMBDA t : t.name # SqliteSequence)

\* a section that lists the tables and columns of its store
ListsStore(sec, db) ==
    LET ts == UserTables(db)
    IN  /\ TablesListed(sec) = [i \in DOMAIN ts |-> ts[i].name]
        /\ \A k \in DOMAIN ts :
               ColumnsListed(sec, k) =
                   [i \in DOMAIN ts[k].cols |-> <<ts[k].cols[i].name, ts[k].cols[i].type>>]

\* C12: a get_schema call always returns; the description has one section per
\* configured store, the error note stands in the sections of the stores
\* whose read failed and in no other, and the section of every store read
\* without error lists that store's tables and columns.
C12_FailedStoreOnlyCarriesErrorNote ==
    /\ spc \in {"idle", "loop", "returned"}
    /\ spc = "returned" =>
          /\ StoresListed(description) = Databases
          /\ \A db \in DbNames :
                /\ HasErrorNote(SectionOf(description, db)) <=> db \in errs
                /\ db \notin errs => ListsStore(SectionOf(description, db), db)

\* a call in which one store failed and another one, holding tables, was read
C12_Witness ==
    /\ spc = "returned"
    /\ Cardinality(errs) = 1
    /\ \E db \in DbNames \ errs :
          /\ UserTables(db) # <<>>
          /\ ListsStore(SectionOf(description, db), db)

\* the description without its dated header line
Listing(desc) == SelectSeq(desc, LAMBDA l : l.kind # "header")

\* C13 as stated: two calls on unchanged stores return the same listing.
C13_RepeatedCallsSameListing ==
    (spc = "returned" /\ calls >= 2) => Listing(description) = Listing(prevDescription)

\* C13: two calls on unchanged stores name the same stores in the same order,
\* and list the same tables and columns, in the same order and with the same
\* annotations, for every store that both calls read without error.
C13_RepeatedCallsSameListingOfReadStores ==
    (spc = "returned" /\ calls >= 2) =>
        /\ StoresListed(description) = StoresListed(prevDescription)
        /\ \A db \in DbNames \ (errs \cup prevErrs) :
               SectionOf(description, db) = SectionOf(prevDescription, db)

\* two calls at different times, both reading a store that holds tables
C13_Witness ==
    /\ spc = "returned"
    /\ calls >= 2
    /\ description # prevDescription
    /\ \E db \in DbNames \ (errs \cup prevErrs) :
          /\ TablesListed(SectionOf(description, db)) # <<>>
          /\ SectionOf(description, db) = SectionOf(prevDescription, db)

\* ----------------------------------------------------------- VectorStore claims
\* C14: in every collection the ids computed by the add calls grow strictly in
\* call order, the stored ids are pairwise distinct, and every computed id is
\* stored, in that order.
C14_IdsDistinctAndIncreasing ==
    \A c \in CollNames :
        /\ \A i, j \in DOMAIN assigned[c] : i < j => assigned[c][i] < assigned[c][j]
        /\ \A i, j \in DOMAIN coll[c] : i # j => coll[c][i].id # coll[c][j].id
        /\ [i \in DOMAIN coll[c] |-> coll[c][i].id] =
               [i \in DOMAIN assigned[c] |-> MakeId(c, assigned[c][i])]

\* each of the three add operations was called twice
C14_Witness == \A c \in CollNames : Len(assigned[c]) >= 2 /\ Len(coll[c]) >= 2

\* add_sql_pattern(p.question, p.sql, p.metadata) was called
WasAdded(p) ==
    \E i \in DOMAIN coll["patterns"] :
        /\ coll["patterns"][i].doc = p.sql
        /\ coll["patterns"][i].meta = PatternMeta(p)

\* C15: query_similar(q, k) returns, in its patterns, an item with the SQL and
\* exactly the metadata of every exemplar that was added under question q.
C15_AddedExemplarReturned ==
    lastOp.op = "query_similar" =>
        \A p \in PatternInputs :
            (WasAdded(p) /\ lastOp.query = p.question) =>
                LET r == lastOp.results["patterns"]
                IN  \E i \in DOMAIN r.documents[1] :
                        /\ r.documents[1][i] = p.sql
                        /\ r.metadatas[1][i] = MetaOrEmpty(p.metadata)

\* a result without items: no list, or one empty list for the one query text
NoItems(r) == r.documents \in {<<>>, << <<>> >>}

\* C16: on a store to which nothing was added, query_similar returns no items
\* for the three collections and the planner formats the exemplars as absent.
C16_EmptyStoreFormatsAbsent ==
    (lastOp.op = "create_execution_plan" /\ \A c \in CollNames : coll[c] = <<>>) =>
        /\ \A c \in CollNames : NoItems(lastOp.results[c])
        /\ lastOp.exemplars = NoPatternsFound

\* the file of collection c is present, is JSON, and its entries are complete
WellFormed(c) ==
    /\ files[c].exists
    /\ files[c].json
    /\ \A i \in DOMAIN files[c].entries : RequiredKeys(c) \subseteq DOMAIN files[c].entries[i]

IsPrefix(s, t) == Len(s) <= Len(t) /\ SubSeq(t, 1, Len(s)) = s

\* the entries of the file of c were added to the collection, after what it held
Loaded(c) ==
    /\ IsPrefix(lastOp.before[c], coll[c])
    /\ Len(coll[c]) >= Len(lastOp.before[c]) + Len(files[c].entries)
    /\ \A i \in DOMAIN files[c].entries :
           \E j \in DOMAIN coll[c] :
               /\ j > Len(lastOp.before[c])
               /\ coll[c][j].doc = (IF c = "patterns" THEN files[c].entries[i].sql
                                    ELSE files[c].entries[i].content)

\* C17: when every file that is present is well-formed, load_initial_data does
\* not raise, leaves the collection of an absent file as it was and loads the
\* collection of every present file.
C17_AbsentFileSkipped ==
    (lastOp.op = "load_initial_data"
        /\ \A c \in CollNames : files[c].exists => WellFormed(c)) =>
        /\ lastOp.raised = ""
        /\ \A c \in CollNames :
              /\ ~files[c].exists => coll[c] = lastOp.before[c]
              /\ files[c].exists => Loaded(c)

\* a load with one file absent and entries in another
C17_Witness ==
    /\ lastOp.op = "load_initial_data"
    /\ \A c \in CollNames : files[c].exists => WellFormed(c)
    /\ \E c \in CollNames : ~files[c].exists /\ lastOp.before[c] # <<>>
    /\ \E c \in CollNames : files[c].exists /\ files[c].entries # <<>> /\ Loaded(c)

\* C18: after load_initial_data, the collection of every well-formed file is
\* loaded, whatever the state of the other files.
C18_MalformedFileAbortsOnlyItsCollection ==
    lastOp.op = "load_initial_data" =>
        \A c \in CollNames : WellFormed(c) => Loaded(c)

\* C19: no step of VectorStore changes or removes an entry: what a collection
\* held before the step it still holds after it, at the same place.
C19_AppendOnly ==
    [][\A c \in CollNames : IsPrefix(coll[c], coll'[c])]_allVars

\* a query and an add on collections that already hold entries
C19_Witness ==
    /\ lastOp.op \in {"query_similar", "add_sql_pattern"}
    /\ \A c \in CollNames : Len(coll[c]) >= 2

\* ------------------------------------------------------------ parser claims
\* a brace-free text has a line that opens the sql_query section
HasSqlQuerySection(lines) ==
    \E i \in DOMAIN lines :
        LET l == Strip(lines[i])
        IN  /\ l # <<>>
            /\ l[Len(l)] = ":"
            /\ Lower(SubSeq(l, 1, Len(l) - 1)) \in {KeyText("sql_query"), <<"s","q","l"," ","q","u","e","r","y">>}

\* the text is neither JSON nor has the section the line heuristic reads
Unparseable(r) ==
    \/ r.form = "badjson"
    \/ r.form = "lines" /\ ~HasSqlQuerySection(r.lines)

\* C20: _parse_gemini_response returns a plan for every response text, and a
\* plan with an empty sql_query when the text is neither JSON nor has a
\* sql_query section.
C20_ParserAlwaysReturnsPlan ==
    pc = "parsed" =>
        /\ DOMAIN plan = PlanKeys
        /\ plan # NoPlan
        /\ Unparseable(response) => plan["sql_query"] = Text(<<>>)

\* invalid JSON was parsed, and so was a brace-free text without the section
C20_Witness ==
    /\ pc = "parsed"
    /\ Unparseable(response)
    /\ plan = DefaultPlan

\* the texts t of the lines `sql_query: t` of a response
SqlQueryLineTexts(r) ==
    { SubSeq(r.lines[i], Len(SqlQueryInline) + 1, Len(r.lines[i])) :
        i \in { j \in DOMAIN r.lines :
                  /\ Len(r.lines[j]) > Len(SqlQueryInline)
                  /\ SubSeq(r.lines[j], 1, Len(SqlQueryInline)) = SqlQueryInline } }

\* C21: a response with braces that is not valid JSON and carries the line
\* `sql_query: t` is parsed into a plan whose sql_query is t.
C21_InvalidJsonFallsBackToLines ==
    (pc = "parsed" /\ response.form = "badjson") =>
        \A t \in SqlQueryLineTexts(response) : plan["sql_query"] = Text(t)

\* ------------------------------------------------------- more execute claims
\* C22: when the recognized table names of the SQL all belong to one of the
\* three configured stores, every call _execute_sql makes goes to that store
\* and _execute_sql does not fail on routing.
C22_SingleStoreSqlRoutedToItsStore ==
    (ExecuteSqlDone /\ plan.sql_query.str) =>
        \A x \in DbNames :
            StoresOfTablesIn(plan.sql_query.s) = {x} =>
                /\ result.at # "_execute_sql"
                /\ \A i \in DOMAIN log : ByExecuteSql(i) => log[i].db = x

\* C23: the statement sent to a store holds no occurrence of that store's
\* prefix, in any letter case.
C23_PrefixStrippedInAnyCase ==
    \A i \in DOMAIN log :
        log[i].ev = "query" => ~IsSubstrLower(PrefixOf(log[i].db), log[i].sql)

\* another store or the language model is called at place j of the log
CallsElsewhere(j, db) ==
    \/ log[j].ev = "send_message"
    \/ log[j].ev = "connect" /\ log[j].db # db

\* C24: every connection opened is closed by the call that opened it, before
\* another store is connected to or the language model is called.
C24_ConnectionClosedBeforeNextCall ==
    \A i \in DOMAIN log :
        log[i].ev = "connect" =>
            \E j \in DOMAIN log :
                /\ j > i
                /\ log[j].ev = "close"
                /\ log[j].db = log[i].db
                /\ log[j].by = log[i].by
                /\ \A k \in (i + 1)..(j - 1) : ~CallsElsewhere(k, log[i].db)

\* C27: SQL that holds a table name the validation accepts does not make
\* _execute_sql fail.
C27_ValidatedSqlHasConfiguredStore ==
    (plan.sql_query.str /\ TablesIn(plan.sql_query.s) # {}) =>
        ~(pc = "raised" /\ result.at = "_execute_sql")

\* C29: the plan handed to validation has a text under each of its four keys.
C29_PlanFieldsAreTexts ==
    pc = "validate" => \A k \in PlanKeys : plan[k].str

\* _create_visualization has returned
VisualizationDone ==
    \/ pc \in {"explain", "done"}
    \/ pc = "raised" /\ result.at = "_generate_explanation"

\* C25 as stated: for a non-empty Result Set a chart is produced only when
\* chart_hint is exactly line, bar or scatter; any other text yields no chart
C25_ChartOnlyForExactHint ==
    (VisualizationDone /\ ~DataEmpty(data) /\ viz # NoChart) =>
        /\ plan.visualization.str
        /\ plan.visualization.s \in {Line, Bar, Scatter}

\* C25 amended: for a non-empty Result Set a chart is produced only when
\* chart_hint is a text containing line, bar or scatter in any letter case
\* (line before bar before scatter) and the Result Set has two columns or
\* more; the chart then has that kind, the first column as x, the second as y
\* and the third, if there is one, as colour split. A hint containing none of
\* the three words, a hint that is no text and a one-column Result Set yield
\* no chart, and so does a failure while building the chart
C25_ChartForHintContainingKind ==
    (VisualizationDone /\ ~DataEmpty(data)) =>
        /\ viz # NoChart =>
              /\ plan.visualization.str
              /\ ChartKind(plan.visualization.s) # "none"
              /\ viz.kind = ChartKind(plan.visualization.s)
              /\ data.cols >= 2
              /\ viz.x = 1 /\ viz.y = 2
              /\ viz.color = (IF data.cols > 2 THEN 3 ELSE 0)
        /\ (~plan.visualization.str \/ data.cols < 2) => viz = NoChart
        /\ (plan.visualization.str /\ ChartKind(plan.visualization.s) = "none")
              => viz = NoChart

C25_Witness ==
    /\ pc = "done"
    /\ ~DataEmpty(data)
    /\ plan.visualization.str
    /\ plan.visualization.s = LineChart
    /\ data.cols = 3
    /\ viz = [kind |-> "line", x |-> 1, y |-> 2, color |-> 3]

\* C26: execute that returned has called the language model exactly twice,
\* first for the plan and then for the explanation, and every call to the
\* language model, in the first question or a later one, is sent on a session
\* whose history is empty.
C26_TwoCallsEachInFreshChat ==
    /\ \A i \in DOMAIN log :
          log[i].ev = "send_message" => log[i].history = <<>>
    /\ pc = "done" =>
          \E i, j \in DOMAIN log :
              /\ i < j
              /\ IsPlanCall(i)
              /\ IsExplanationCall(j)
              /\ \A k \in DOMAIN log :
                    log[k].ev = "send_message" => k \in {i, j}

C26_Witness ==
    /\ pc = "done"
    /\ chat = <<"_generate_explanation", "model">>
    /\ Cardinality({ i \in DOMAIN log : log[i].ev = "send_message" }) = 2

\* C28: one call of load_initial_data on an empty store, with every present
\* file well-formed, leaves in each collection as many entries as its file
\* holds, whichever files are present.
C28_EachEntryLoadedOnce ==
    (/\ lastOp.op = "load_initial_data"
     /\ \A c \in CollNames : lastOp.before[c] = <<>>
     /\ \A c \in CollNames : files[c].exists => WellFormed(c)) =>
        \A c \in CollNames :
            Len(coll[c]) = (IF files[c].exists THEN Len(files[c].entries) ELSE 0)

\* the threads whose add call on collection c has returned
AddedTo(c) == { t \in Threads : adds[t].at = "added" /\ adds[t].c = c }

\* C30: whatever the order of the halves of add calls on one collection, the
\* calls that returned have built different identifiers and the collection
\* holds an entry for each of them.
C30_InterleavedAddsKeepBoth ==
    \A c \in CollNames :
        /\ \A t, u \in AddedTo(c) : t # u => adds[t].id # adds[u].id
        /\ \A t \in AddedTo(c) :
              \E i \in DOMAIN coll[c] :
                  coll[c][i] = Entry(adds[t].id, adds[t].doc, adds[t].meta)
        /\ Len(coll[c]) >= Cardinality(AddedTo(c))

====
